---- MODULE Spec2Model ----
(***************************************************************************)
(* A model of the OFP ingest server (src/server.js, lines 379-858): the    *)
(* text extractor parseOFP, the clock and instant helpers, the block-based *)
(* night computation, the landing classification, the logbook value        *)
(* deriver createPendingFlight and the POST /ingest handler.               *)
(*                                                                         *)
(* Representation.                                                         *)
(*  - A JavaScript value that may be null is a sequence of length <= 1:    *)
(*    <<>> is null, <<v>> is the value v.                                  *)
(*  - An OFP text is the record of the substrings its patterns look for    *)
(*    (each absent or present as written in the text).                     *)
(*  - A Date is <<>> (Invalid Date, whose getters return NaN) or <<m>>,    *)
(*    m the minutes elapsed since 00:00Z of the nominal date.              *)
(*  - Block hours and night hours are carried in tenths of an hour.        *)
(*  - A number that may be NaN is <<>> (NaN) or <<n>>.                     *)
(***************************************************************************)
EXTENDS Integers, Sequences, FiniteSets, TLC

VARIABLES
    AIRPORTS,   \* the coordinate table loaded at start-up
    req,        \* POST /ingest requests, one record per connection slot
    nf,         \* the flight fact and threshold a derivation run works on
    nl,         \* position and locals of computeNightHours_BlockInterval
    ld,         \* result of computeLandingDayNight for nf
    ck,         \* a pair of clock times and their block duration
    cp,         \* outcome of a direct createPendingFlight call on nf
    tk          \* the access-token cache, the clock and the getAccessToken calls

vars == <<AIRPORTS, req, nf, nl, ld, ck, cp, tk>>

----------------------------------------------------------------------------
(* Bounds of the model *)

NReq == 2          \* connection slots served concurrently

(* Program constants *)

MinutesPerDay == 1440      \* diffMinutesWithMidnightWrap: d += 1440
CivilTwilight == -6        \* default twilightAltDeg, and createPendingFlight's argument

----------------------------------------------------------------------------
(* JavaScript values *)

None == <<>>
Some(v) == <<v>>
Val(x) == x[1]

\* !x for a value that is null or an object / non-empty string: only null is falsy.
Falsy(x) == x = <<>>

\* !x for a value that is null or a number: null and 0 are falsy (NaN never
\* reaches such a test in this program).
FalsyNum(x) == x = <<>> \/ x[1] = 0

\* a % b of JavaScript for integers: the remainder takes the sign of the dividend.
JsRem(a, b) == IF a >= 0 THEN a % b ELSE -((-a) % b)

Abs(a) == IF a < 0 THEN -a ELSE a

----------------------------------------------------------------------------
(* The text extractor *)

\* months of parseOFP: the three-letter abbreviations it converts.
months ==
    [JAN |-> 1, FEB |-> 2, MAR |-> 3, APR |-> 4, MAY |-> 5, JUN |-> 6,
     JUL |-> 7, AUG |-> 8, SEP |-> 9, OCT |-> 10, NOV |-> 11, DEC |-> 12]

\* parseZuluHHMM: tok is the four digits written after the label (as a number
\* 0..9999) or null when the label is not followed by four digits.  The pattern
\* ([0-2]\d)([0-5]\d) matches when the first digit is 0..2 and the third 0..5.
parseZuluHHMM(tok) ==
    IF tok = None THEN None
    ELSE LET hh == Val(tok) \div 100
             mm == Val(tok) % 100
         IN  IF hh <= 29 /\ mm <= 59 THEN Some([hh |-> hh, mm |-> mm]) ELSE None

\* The BLOCK token: tok is null or [whole, frac], the digits of \d{1,2}(?:\.\d)?
\* (frac null when no decimal is written).  The matched string is never empty,
\* so `block ? Number(block) : null` is Number(block), here in tenths.
parseBlock(tok) ==
    IF tok = None THEN None
    ELSE Some(Val(tok).whole * 10 + (IF Val(tok).frac = None THEN 0 ELSE Val(Val(tok).frac)))

\* Date -> ISO yyyy-mm-dd: null unless the month abbreviation is known.
parseIsoDate(tok) ==
    IF tok = None THEN None
    ELSE IF Val(tok).mon \in DOMAIN months
         THEN Some([yy |-> Val(tok).yy, mm |-> months[Val(tok).mon], dd |-> Val(tok).dd])
         ELSE None

parseOFP(text) ==
    [isoDate |-> parseIsoDate(text.date),
     orig    |-> text.orig,
     dest    |-> text.dest,
     route   |-> IF ~Falsy(text.orig) /\ ~Falsy(text.dest)
                 THEN Some(<<Val(text.orig), Val(text.dest)>>) ELSE None,
     tail    |-> text.tail,
     block   |-> parseBlock(text.block),
     times   |-> [out |-> parseZuluHHMM(text.out),
                  in  |-> parseZuluHHMM(text.in),
                  off |-> parseZuluHHMM(text.off),
                  on  |-> parseZuluHHMM(text.on)]]

----------------------------------------------------------------------------
(* Instants *)

\* The ISO string `${isoDate}T${hh}:${mm}:00Z` parses to a valid Date when the
\* day is 01..31 and the time is 00:00..23:59 or 24:00; else to Invalid Date.
makeUtcDate(isoDate, hhmm) ==
    IF /\ Val(isoDate).dd >= 1 /\ Val(isoDate).dd <= 31
       /\ (hhmm.hh <= 23 \/ (hhmm.hh = 24 /\ hhmm.mm = 0))
    THEN Some(hhmm.hh * 60 + hhmm.mm)
    ELSE None

\* t.getUTCHours() * 60 + t.getUTCMinutes(): NaN for Invalid Date.
utcMinuteOfDay(t) == IF t = None THEN None ELSE Some(Val(t) % MinutesPerDay)

\* A plausible slip: the wrap branch is left out.
diffMinutesNoWrap(t1, t2) ==
    LET m1 == utcMinuteOfDay(t1)
        m2 == utcMinuteOfDay(t2)
    IN  IF m1 = None \/ m2 = None THEN None ELSE Some(Val(m2) - Val(m1))

diffMinutesWithMidnightWrap(t1, t2) ==
    LET m1 == utcMinuteOfDay(t1)
        m2 == utcMinuteOfDay(t2)
    IN  IF m1 = None \/ m2 = None THEN None
        ELSE LET d == Val(m2) - Val(m1)
             IN  Some(IF d < 0 THEN d + MinutesPerDay ELSE d)

----------------------------------------------------------------------------
(* Airport coordinates, great-circle interpolation, solar altitude *)

\* The table read from ./airports.json: two airports on the equator
\* (Galapagos, Quito, longitudes rounded to whole degrees).
AirportTable ==
    [SEGS |-> [lat |-> 0, lon |-> -90],
     SEQM |-> [lat |-> 0, lon |-> -78]]

\* AIRPORTS[code]: null (undefined) when the table has no entry.
Lookup(code) == IF code \in DOMAIN AIRPORTS THEN Some(AIRPORTS[code]) ELSE None

\* slerpLatLon for two points of the equator less than 180 degrees apart, at
\* the fraction f = num/den: the great circle is the equator and the
\* interpolated longitude is lon1 + f * (lon2 - lon1), returned as the exact
\* quotient lonNum/den.  Coincident points return the first point.
slerpLatLon(p1, p2, f) ==
    IF p1.lon = p2.lon
    THEN [lat |-> p1.lat, lonNum |-> p1.lon * f.den, den |-> f.den]
    ELSE [lat |-> 0, lonNum |-> p1.lon * f.den + f.num * (p2.lon - p1.lon), den |-> f.den]

\* solarAltitudeDeg for a point of the equator, with the date-dependent terms
\* at their equinox values (declination 0, equation of time 0):
\*   trueSolarTime = (utcMinutes + 4 * lon) % 1440      (JavaScript %)
\*   ha = trueSolarTime / 4 < 0 ? trueSolarTime / 4 + 180 : trueSolarTime / 4 - 180
\*   cosZenith = cos(ha), so zenith = |ha| and altitude = 90 - |ha|.
\* The result is the exact quotient n/d in degrees (d > 0); NaN for Invalid Date.
solarAltitudeDeg(t, p) ==
    IF t = None THEN None
    ELSE LET utcMinutes == Val(t) % MinutesPerDay
             tst == JsRem(utcMinutes * p.den + 4 * p.lonNum, MinutesPerDay * p.den)
             ha  == IF tst < 0 THEN tst + 720 * p.den ELSE tst - 720 * p.den
         IN  Some([n |-> 360 * p.den - Abs(ha), d |-> 4 * p.den])

\* alt < twilightAltDeg (false when alt is NaN).
AltBelow(alt, thr) == alt # None /\ Val(alt).n < thr * Val(alt).d

----------------------------------------------------------------------------
(* The night computation *)

\* A plausible slip: the offset is divided by the duration itself.
SampleFractionOverTotal(i, totalMin) == [num |-> i, den |-> totalMin]

\* f = totalMin === 1 ? 0 : i / (totalMin - 1)
SampleFraction(i, totalMin) ==
    IF totalMin = 1 THEN [num |-> 0, den |-> 1] ELSE [num |-> i, den |-> totalMin - 1]

\* ti = new Date(tOut.getTime() + i * 60000)
SampleInstant(tOut, i) == Some(Val(tOut) + i)

\* Sample i of the loop: its offset, instant, fraction and position
\* (lines 655-659).
Sample(a, b, tOut, totalMin, i) ==
    [i |-> i, ti |-> SampleInstant(tOut, i), f |-> SampleFraction(i, totalMin),
     p |-> slerpLatLon(a, b, SampleFraction(i, totalMin))]

\* The altitude of sample i: lines 656-661.
SampleAltitude(a, b, tOut, totalMin, i) ==
    solarAltitudeDeg(SampleInstant(tOut, i), slerpLatLon(a, b, SampleFraction(i, totalMin)))

\* A plausible slip: the comparison is turned around.
NightStepAbove(nightMin, alt, thr) ==
    IF alt # None /\ Val(alt).n > thr * Val(alt).d THEN nightMin + 1 ELSE nightMin

\* if (alt < twilightAltDeg) nightMin += 1
NightStep(nightMin, alt, thr) == IF AltBelow(alt, thr) THEN nightMin + 1 ELSE nightMin

\* A plausible slip: the loop runs to i <= totalMin.
LoopGuardInclusive(i, totalMin) == totalMin # None /\ i <= Val(totalMin)

\* i < totalMin (false when totalMin is NaN)
LoopGuard(i, totalMin) == totalMin # None /\ i < Val(totalMin)

\* The for loop of lines 655-663 from offset i on.
RECURSIVE NightLoop(_, _, _, _, _, _, _)
NightLoop(a, b, tOut, totalMin, thr, i, nightMin) ==
    IF LoopGuard(i, totalMin)
    THEN NightLoop(a, b, tOut, totalMin, thr, i + 1,
                   NightStep(nightMin, SampleAltitude(a, b, tOut, Val(totalMin), i), thr))
    ELSE nightMin

\* Math.round((nightMin / 60) * 10) / 10, in tenths of an hour.
RoundNightHours(nightMin) == (nightMin + 3) \div 6

\* A plausible slip: the clock 0000 is taken for a missing time.
NightInputsMissingZeroClock(parsed) ==
    \/ Falsy(parsed.isoDate) \/ Falsy(parsed.orig) \/ Falsy(parsed.dest)
    \/ Falsy(parsed.times.out) \/ Falsy(parsed.times.in)
    \/ Val(parsed.times.out) = [hh |-> 0, mm |-> 0]
    \/ Val(parsed.times.in) = [hh |-> 0, mm |-> 0]

\* The guard of line 640.
NightInputsMissing(parsed) ==
    \/ Falsy(parsed.isoDate) \/ Falsy(parsed.orig) \/ Falsy(parsed.dest)
    \/ Falsy(parsed.times.out) \/ Falsy(parsed.times.in)

\* The guard of line 645 and the code its reason names.
NightCoordsMissing(parsed) ==
    Falsy(Lookup(Val(parsed.orig))) \/ Falsy(Lookup(Val(parsed.dest)))

NightCoordsReason(parsed) ==
    <<"Missing airport coords for",
      IF Falsy(Lookup(Val(parsed.orig))) THEN Val(parsed.orig) ELSE Val(parsed.dest)>>

\* totalMin <= 0 (false when totalMin is NaN)
NonPositive(totalMin) == totalMin # None /\ Val(totalMin) <= 0

NightTotalMin(parsed) ==
    diffMinutesWithMidnightWrap(makeUtcDate(parsed.isoDate, Val(parsed.times.out)),
                                makeUtcDate(parsed.isoDate, Val(parsed.times.in)))

computeNightHours_BlockInterval(parsed, twilightAltDeg) ==
    IF NightInputsMissing(parsed)
    THEN [nightHours |-> None, reason |-> <<"Missing OUT/IN or route/date">>]
    ELSE IF NightCoordsMissing(parsed)
    THEN [nightHours |-> None, reason |-> NightCoordsReason(parsed)]
    ELSE IF NonPositive(NightTotalMin(parsed))
    THEN [nightHours |-> Some(0), reason |-> <<"Non-positive block minutes">>]
    ELSE [nightHours |->
              Some(RoundNightHours(
                  NightLoop(Val(Lookup(Val(parsed.orig))), Val(Lookup(Val(parsed.dest))),
                            makeUtcDate(parsed.isoDate, Val(parsed.times.out)),
                            NightTotalMin(parsed), twilightAltDeg, 0, 0))),
          reason |-> <<"ok">>]

----------------------------------------------------------------------------
(* The landing classification *)

\* times?.on || times?.in
LandingClock(parsed) ==
    IF ~Falsy(parsed.times.on) THEN parsed.times.on ELSE parsed.times.in

\* landMin < outMin (false when either is NaN)
LandsBeforeOut(tLand, tOut) ==
    /\ utcMinuteOfDay(tLand) # None
    /\ utcMinuteOfDay(tOut) # None
    /\ Val(utcMinuteOfDay(tLand)) < Val(utcMinuteOfDay(tOut))

\* A plausible slip: the landing date is never advanced.
LandingInstantNoRollover(parsed) ==
    makeUtcDate(parsed.isoDate, Val(LandingClock(parsed)))

\* tLand of lines 679-687: the date and landing clock, a day later when an OUT
\* time exists and the landing minute of day is earlier than the OUT one.
LandingInstant(parsed) ==
    LET tLand == makeUtcDate(parsed.isoDate, Val(LandingClock(parsed)))
    IN  IF ~Falsy(parsed.times.out)
           /\ LandsBeforeOut(tLand, makeUtcDate(parsed.isoDate, Val(parsed.times.out)))
        THEN Some(Val(tLand) + MinutesPerDay)
        ELSE tLand

computeLandingDayNight(parsed, twilightAltDeg) ==
    IF Falsy(parsed.isoDate) \/ Falsy(parsed.dest)
    THEN [isNightLanding |-> None, reason |-> <<"Missing date/dest">>,
          sunAltDeg |-> None, tLand |-> None]
    ELSE IF Falsy(Lookup(Val(parsed.dest)))
    THEN [isNightLanding |-> None,
          reason |-> <<"Missing airport coords for", Val(parsed.dest)>>,
          sunAltDeg |-> None, tLand |-> None]
    ELSE IF Falsy(LandingClock(parsed))
    THEN [isNightLanding |-> None, reason |-> <<"Missing ON/IN time">>,
          sunAltDeg |-> None, tLand |-> None]
    ELSE LET tLand == LandingInstant(parsed)
             dc    == Val(Lookup(Val(parsed.dest)))
             alt   == solarAltitudeDeg(tLand, [lat |-> dc.lat, lonNum |-> dc.lon, den |-> 1])
         IN  [isNightLanding |-> Some(AltBelow(alt, twilightAltDeg)), reason |-> <<"ok">>,
              sunAltDeg |-> alt, tLand |-> tLand]

----------------------------------------------------------------------------
(* Input domains *)

RefDate == [yy |-> 24, mm |-> 1, dd |-> 1]

ClockHours == 0 .. 23
ClockMinutes == {0, 1, 10, 30, 50, 59}
Clocks == {[hh |-> h, mm |-> m] : h \in ClockHours, m \in ClockMinutes}

\* Substrings an OFP text may hold for each pattern (<<>>: no match).
DateTokens ==
    {None,
     Some([dd |-> 1, mon |-> "JAN", yy |-> 24]),     \* DATE 01JAN24
     Some([dd |-> 0, mon |-> "JAN", yy |-> 24]),     \* DATE 00JAN24
     Some([dd |-> 1, mon |-> "JNA", yy |-> 24])}     \* DATE 01JNA24
CodeTokens == {None, Some("SEGS"), Some("SEQM"), Some("ZZZZ")}
TailTokens == {None, Some("C-ABCD")}
BlockTokens ==
    {None,
     Some([whole |-> 0, frac |-> None]),             \* BLOCK 0
     Some([whole |-> 0, frac |-> Some(0)]),          \* BLOCK 0.0
     Some([whole |-> 1, frac |-> Some(5)])}          \* BLOCK 1.5
OutTokens == {None, Some(2350), Some(2359), Some(0), Some(2530)}
InTokens == {None, Some(10), Some(0), Some(2400), Some(2360), Some(2530)}
OffTokens == {None, Some(2355)}
OnTokens == {None, Some(5), Some(2355)}
Thresholds == {-12, CivilTwilight, 0}

----------------------------------------------------------------------------
(* Block duration of a pair of clock times *)

ClockIdle == [pc |-> "idle", out |-> [hh |-> 0, mm |-> 0], in |-> [hh |-> 0, mm |-> 0], d |-> None]

InitClock ==
    /\ AIRPORTS = <<>>
    /\ req = <<>>
    /\ nf = <<>>
    /\ nl = <<>>
    /\ ld = <<>>
    /\ cp = <<>>
    /\ tk = <<>>
    /\ \E o \in Clocks, i \in Clocks : ck = [ClockIdle EXCEPT !.pc = "drawn", !.out = o, !.in = i]

\* Lines 649-651 of the night computation on the drawn pair.
BlockDuration ==
    /\ ck.pc = "drawn"
    /\ ck' = [ck EXCEPT !.pc = "done",
                        !.d = diffMinutesWithMidnightWrap(makeUtcDate(Some(RefDate), ck.out),
                                                          makeUtcDate(Some(RefDate), ck.in))]
    /\ UNCHANGED <<AIRPORTS, req, nf, nl, ld, cp, tk>>

NextClock == BlockDuration

SpecClock == InitClock /\ [][NextClock]_vars

\* C5: for OUT and IN clock times with hour 0..23 and minute 0..59 the block
\* duration is (IN - OUT) mod 1440, a number in 0..1439; OUT=2350, IN=0010 gives 20.
C5_BlockDurationIsModulo ==
    ck.pc = "done" =>
        /\ ck.d # None
        /\ Val(ck.d) = ((ck.in.hh * 60 + ck.in.mm) - (ck.out.hh * 60 + ck.out.mm)) % MinutesPerDay
        /\ Val(ck.d) \in 0 .. (MinutesPerDay - 1)
        /\ (ck.out = [hh |-> 23, mm |-> 50] /\ ck.in = [hh |-> 0, mm |-> 10] => Val(ck.d) = 20)

C5_Witness ==
    /\ ck.pc = "done"
    /\ ck.out = [hh |-> 23, mm |-> 50]
    /\ ck.in = [hh |-> 0, mm |-> 10]
    /\ ck.d = Some(20)

----------------------------------------------------------------------------
(* The night computation and the landing classification, run on one fact.  *)
(* The loop of computeNightHours_BlockInterval is taken one sample at a    *)
(* time, the sample just taken being kept in last; a finished computation  *)
(* may be run again at another threshold.                                  *)

NightIdle ==
    [pc |-> "entry", a |-> None, b |-> None, tOut |-> None, totalMin |-> None,
     i |-> 0, nightMin |-> 0, last |-> None, result |-> None, prev |-> None]

InitNight ==
    /\ AIRPORTS = AirportTable
    /\ req = <<>>
    /\ ck = ClockIdle
    /\ ld = None
    /\ nl = NightIdle
    /\ cp = None
    /\ tk = <<>>
    /\ \E d \in DateTokens, o \in CodeTokens, e \in CodeTokens, ot \in OutTokens,
          it \in InTokens, on \in OnTokens, thr \in Thresholds :
          nf = [parsed |-> parseOFP([date |-> d, orig |-> o, dest |-> e,
                                     tail |-> Some("C-ABCD"),
                                     block |-> Some([whole |-> 1, frac |-> Some(5)]),
                                     out |-> ot, in |-> it, off |-> None, on |-> on]),
                thr |-> thr]

\* Lines 639-654: the guards, the duration, nightMin = 0.
NightEnter ==
    /\ nl.pc = "entry"
    /\ LET p == nf.parsed IN
       IF NightInputsMissing(p) \/ NightCoordsMissing(p) \/ NonPositive(NightTotalMin(p))
       THEN nl' = [nl EXCEPT !.pc = "returned",
                             !.result = Some(computeNightHours_BlockInterval(p, nf.thr))]
       ELSE nl' = [nl EXCEPT !.pc = "loop",
                             !.a = Lookup(Val(p.orig)),
                             !.b = Lookup(Val(p.dest)),
                             !.tOut = makeUtcDate(p.isoDate, Val(p.times.out)),
                             !.totalMin = NightTotalMin(p),
                             !.i = 0,
                             !.nightMin = 0]
    /\ UNCHANGED <<AIRPORTS, req, nf, ld, ck, cp, tk>>

\* One iteration of the loop, lines 655-663.
NightSample ==
    /\ nl.pc = "loop"
    /\ LoopGuard(nl.i, nl.totalMin)
    /\ nl' = [nl EXCEPT
                !.nightMin = NightStep(nl.nightMin,
                                       SampleAltitude(Val(nl.a), Val(nl.b), nl.tOut,
                                                      Val(nl.totalMin), nl.i),
                                       nf.thr),
                !.last = Some(Sample(Val(nl.a), Val(nl.b), nl.tOut, Val(nl.totalMin), nl.i)),
                !.i = nl.i + 1]
    /\ UNCHANGED <<AIRPORTS, req, nf, ld, ck, cp, tk>>

\* Loop exit and line 665.
NightReturn ==
    /\ nl.pc = "loop"
    /\ ~LoopGuard(nl.i, nl.totalMin)
    /\ nl' = [nl EXCEPT !.pc = "returned",
                        !.result = Some([nightHours |-> Some(RoundNightHours(nl.nightMin)),
                                         reason |-> <<"ok">>])]
    /\ UNCHANGED <<AIRPORTS, req, nf, ld, ck, cp, tk>>

\* The same fact is computed again at another threshold; the finished run is kept.
NightAgain(thr) ==
    /\ nl.pc = "returned"
    /\ thr # nf.thr
    /\ nl' = [NightIdle EXCEPT
                !.prev = Some([thr |-> nf.thr, nightMin |-> nl.nightMin,
                               nightHours |-> Val(nl.result).nightHours])]
    /\ nf' = [nf EXCEPT !.thr = thr]
    /\ ld' = None
    /\ UNCHANGED <<AIRPORTS, req, ck, cp, tk>>

\* computeLandingDayNight on the fact.
Landing ==
    /\ ld = None
    /\ ld' = Some(computeLandingDayNight(nf.parsed, nf.thr))
    /\ UNCHANGED <<AIRPORTS, req, nf, nl, ck, cp, tk>>

NextNight ==
    \/ NightEnter
    \/ NightSample
    \/ NightReturn
    \/ \E thr \in Thresholds : NightAgain(thr)
    \/ Landing

SpecNight == InitNight /\ [][NextNight]_vars

\* C6: after k sampled minutes the night-minute counter is an integer with
\* 0 <= counter <= k, the loop never samples more than the duration, and at the
\* end the counter lies in [0, durationMinutes].
C6_NightCounterBounded ==
    /\ nl.nightMin \in 0 .. nl.i
    /\ (nl.totalMin # None => nl.i <= Val(nl.totalMin))
    /\ (nl.pc = "returned" /\ nl.totalMin # None => nl.nightMin \in 0 .. Val(nl.totalMin))

C6_Witness ==
    /\ nl.pc = "returned"
    /\ nl.totalMin = Some(20)
    /\ nl.i = 20
    /\ nl.nightMin > 0
    /\ nl.nightMin < 20

\* The seven inputs of the night computation, by presence alone.
SevenInputsPresent(parsed) ==
    /\ parsed.isoDate # None
    /\ parsed.orig # None
    /\ parsed.dest # None
    /\ parsed.times.out # None
    /\ parsed.times.in # None
    /\ Val(parsed.orig) \in DOMAIN AIRPORTS
    /\ Val(parsed.dest) \in DOMAIN AIRPORTS

\* C7: the night computation returns null, with a diagnostic reason, exactly
\* when one of date, origin, destination, OUT, IN or either airport's
\* coordinates is missing; with all seven present it returns a number.
C7_NightNullIffMissing ==
    nl.pc = "returned" =>
        LET r == Val(nl.result) IN
        /\ (r.nightHours = None <=> ~SevenInputsPresent(nf.parsed))
        /\ (r.nightHours = None => r.reason # <<"ok">> /\ Len(r.reason) > 0)
        /\ (r.nightHours # None => Val(r.nightHours) \in Nat)

C7_Witness ==
    /\ nl.pc = "returned"
    /\ SevenInputsPresent(nf.parsed)
    /\ Val(nf.parsed.times.out) = [hh |-> 0, mm |-> 0]
    /\ Val(nf.parsed.times.in) = [hh |-> 0, mm |-> 10]
    /\ nl.i = 10
    /\ Val(nl.result).nightHours # None

HoursLe(x, y) == (x = None /\ y = None) \/ (x # None /\ y # None /\ Val(x) <= Val(y))

\* C8: for one flight fact, coordinate table and solar altitude, the night
\* minutes (and the rounded night hours) do not decrease when the twilight
\* threshold increases.
C8_NightMonotoneInThreshold ==
    nl.pc = "returned" /\ nl.prev # None =>
        LET pv == Val(nl.prev)
            r  == Val(nl.result)
        IN  /\ (pv.thr <= nf.thr =>
                    pv.nightMin <= nl.nightMin /\ HoursLe(pv.nightHours, r.nightHours))
            /\ (nf.thr <= pv.thr =>
                    nl.nightMin <= pv.nightMin /\ HoursLe(r.nightHours, pv.nightHours))

C8_Witness ==
    /\ nl.pc = "returned"
    /\ nl.prev # None
    /\ Val(nl.prev).thr < nf.thr
    /\ Val(nl.prev).nightMin < nl.nightMin
    /\ Val(nl.prev).nightMin > 0

\* The clock value of a clock time, in minutes.
ClockValue(c) == c.hh * 60 + c.mm

\* C9: the landing instant is the nominal date combined with the ON clock time
\* (IN when ON is absent), advanced by exactly one calendar day if and only if
\* an OUT time exists and the landing clock value is strictly less than the
\* OUT clock value.
C9_LandingInstantRollover ==
    ld # None /\ Val(ld).reason = <<"ok">> =>
        LET p     == nf.parsed
            land  == IF p.times.on # None THEN Val(p.times.on) ELSE Val(p.times.in)
            base  == makeUtcDate(p.isoDate, land)
            later == p.times.out # None /\ ClockValue(land) < ClockValue(Val(p.times.out))
        IN  Val(ld).tLand =
                IF later /\ base # None THEN Some(Val(base) + MinutesPerDay) ELSE base

\* OUT=2350 and landing clock 0005: the instant is on the next calendar day.
C9_Witness ==
    /\ ld # None
    /\ Val(ld).reason = <<"ok">>
    /\ nf.parsed.times.out = Some([hh |-> 23, mm |-> 50])
    /\ nf.parsed.times.on = Some([hh |-> 0, mm |-> 5])
    /\ Val(ld).tLand = Some(MinutesPerDay + 5)

----------------------------------------------------------------------------
(* The logbook value deriver and the submission *)

\* Lines 695-698: the message of the first failing check, null when all pass.
EssentialsError(parsed) ==
    IF Falsy(parsed.isoDate) THEN Some("Missing date")
    ELSE IF Falsy(parsed.tail) THEN Some("Missing tail (aircraft)")
    ELSE IF Falsy(parsed.route) THEN Some("Missing route")
    ELSE IF FalsyNum(parsed.block) THEN Some("Missing block time")
    ELSE None

\* A plausible slip: the pilot-flying time depends on how many submissions
\* are under way (a module-level tally read by the derivation).
DerivedValuesShared(parsed, pfMode) ==
    LET block    == Val(parsed.block)
        nightRes == computeNightHours_BlockInterval(parsed, CivilTwilight)
        landRes  == computeLandingDayNight(parsed, CivilTwilight)
        mode     == IF pfMode = Some("PM") THEN "PM" ELSE "PF"
        busy     == Cardinality({r \in DOMAIN req : req[r].pc = "awaitFetch"})
    IN  [total |-> block, sic |-> block, pic |-> 0, xc |-> block,
         imc |-> IF block - 1 > 0 THEN block - 1 ELSE 0,
         approaches |-> 1, landings |-> 1,
         night |-> IF nightRes.nightHours = None THEN 0 ELSE Val(nightRes.nightHours),
         fullStopNight |-> IF landRes.isNightLanding = Some(TRUE) THEN 1 ELSE 0,
         fullStopDay |-> IF landRes.isNightLanding = Some(FALSE) THEN 1 ELSE 0,
         pfTime |-> IF mode = "PF" THEN block + busy ELSE 0,
         pmTime |-> IF mode = "PM" THEN block ELSE 0,
         nightReason |-> nightRes.reason,
         landingReason |-> landRes.reason,
         landingSunAltDeg |-> landRes.sunAltDeg]

\* A plausible slip: a landing that is not night counts as a day landing
\* (!landRes.isNightLanding for landRes.isNightLanding === false).
DerivedValuesNullIsDay(parsed, pfMode) ==
    LET block    == Val(parsed.block)
        nightRes == computeNightHours_BlockInterval(parsed, CivilTwilight)
        landRes  == computeLandingDayNight(parsed, CivilTwilight)
        mode     == IF pfMode = Some("PM") THEN "PM" ELSE "PF"
    IN  [total |-> block, sic |-> block, pic |-> 0, xc |-> block,
         imc |-> IF block - 1 > 0 THEN block - 1 ELSE 0,
         approaches |-> 1, landings |-> 1,
         night |-> IF nightRes.nightHours = None THEN 0 ELSE Val(nightRes.nightHours),
         fullStopNight |-> IF landRes.isNightLanding = Some(TRUE) THEN 1 ELSE 0,
         fullStopDay |-> IF landRes.isNightLanding # Some(TRUE) THEN 1 ELSE 0,
         pfTime |-> IF mode = "PF" THEN block ELSE 0,
         pmTime |-> IF mode = "PM" THEN block ELSE 0,
         nightReason |-> nightRes.reason,
         landingReason |-> landRes.reason,
         landingSunAltDeg |-> landRes.sunAltDeg]

\* Lines 700-724: the derived values (times in tenths of an hour).
\*   imc = Math.max(Math.round((block - 0.1) * 10) / 10, 0)
DerivedValues(parsed, pfMode) ==
    LET block    == Val(parsed.block)
        nightRes == computeNightHours_BlockInterval(parsed, CivilTwilight)
        landRes  == computeLandingDayNight(parsed, CivilTwilight)
        mode     == IF pfMode = Some("PM") THEN "PM" ELSE "PF"
    IN  [total |-> block, sic |-> block, pic |-> 0, xc |-> block,
         imc |-> IF block - 1 > 0 THEN block - 1 ELSE 0,
         approaches |-> 1, landings |-> 1,
         night |-> IF nightRes.nightHours = None THEN 0 ELSE Val(nightRes.nightHours),
         fullStopNight |-> IF landRes.isNightLanding = Some(TRUE) THEN 1 ELSE 0,
         fullStopDay |-> IF landRes.isNightLanding = Some(FALSE) THEN 1 ELSE 0,
         pfTime |-> IF mode = "PF" THEN block ELSE 0,
         pmTime |-> IF mode = "PM" THEN block ELSE 0,
         nightReason |-> nightRes.reason,
         landingReason |-> landRes.reason,
         landingSunAltDeg |-> landRes.sunAltDeg]

\* The <le> element of the SOAP envelope, lines 741-778 (the names of the
\* captain and first officer are not carried by this model).
Envelope(parsed, v) ==
    [Date |-> Val(parsed.isoDate), TailNumDisplay |-> Val(parsed.tail),
     Route |-> Val(parsed.route), TotalTime |-> v.total, SIC |-> v.sic, PIC |-> v.pic,
     CrossCountry |-> v.xc, Night |-> v.night, IMC |-> v.imc, Landings |-> v.landings,
     FullStopLandings |-> v.fullStopDay, FullStopNightLandings |-> v.fullStopNight,
     Approaches |-> v.approaches, PF |-> v.pfTime, PM |-> v.pmTime]

\* createPendingFlight up to its await of fetch: it throws, or has issued the
\* request and holds the derived values.
createPendingFlight(parsed, pfMode) ==
    IF EssentialsError(parsed) # None
    THEN [kind |-> "throw", error |-> Val(EssentialsError(parsed)),
          sent |-> None, values |-> None]
    ELSE [kind |-> "fetch", error |-> "",
          sent |-> Some(Envelope(parsed, DerivedValues(parsed, pfMode))),
          values |-> Some(DerivedValues(parsed, pfMode))]

----------------------------------------------------------------------------
(* POST /ingest *)

Append1(seq, cond, name) == IF cond THEN Append(seq, name) ELSE seq

\* Lines 816-824: the list of missing field names, in the order pushed.
MissingFields(parsed) ==
    LET m1 == Append1(<<>>, Falsy(parsed.isoDate), "date")
        m2 == Append1(m1, Falsy(parsed.tail), "tail")
        m3 == Append1(m2, Falsy(parsed.route), "route")
        m4 == Append1(m3, FalsyNum(parsed.block), "block")
        m5 == Append1(m4, Falsy(parsed.orig), "orig")
        m6 == Append1(m5, Falsy(parsed.dest), "dest")
        m7 == Append1(m6, Falsy(parsed.times.out), "OUT")
    IN  Append1(m7, Falsy(parsed.times.in), "IN")

\* A plausible slip: only the origin is looked up.
CoordsMissingOrigOnly(parsed) == Falsy(Lookup(Val(parsed.orig)))

\* Line 831: !AIRPORTS[parsed.orig] || !AIRPORTS[parsed.dest]
CoordsMissing(parsed) ==
    Falsy(Lookup(Val(parsed.orig))) \/ Falsy(Lookup(Val(parsed.dest)))

\* Line 835: [parsed.orig, parsed.dest].filter((c) => !AIRPORTS[c])
MissingAirports(parsed) ==
    SelectSeq(<<Val(parsed.orig), Val(parsed.dest)>>, LAMBDA c : Falsy(Lookup(c)))

NoResponse ==
    [status |-> 0, ok |-> FALSE, error |-> "", missing |-> <<>>,
     missing_airports |-> <<>>, pf_mode |-> "", computed |-> None]

\* outcome is how the external call settled: None while it has not.
ConnIdle ==
    [pc |-> "idle", parsed |-> None, pfMode |-> None, sent |-> None,
     values |-> None, outcome |-> None, resp |-> NoResponse]

Respond(r, parsed, pfMode, resp) ==
    req' = [req EXCEPT ![r] = [ConnIdle EXCEPT !.pc = "responded", !.parsed = parsed,
                                               !.pfMode = pfMode, !.resp = resp]]

\* The handler from the arrival of the request to its first await, or to its
\* response when it answers without awaiting (lines 808-841, 851-853).
Ingest(r, body) ==
    /\ req[r].pc = "idle"
    /\ IF Falsy(body.raw_text)
       THEN Respond(r, None, body.pf_mode,
                    [NoResponse EXCEPT !.status = 400, !.error = "Missing raw_text"])
       ELSE LET parsed == parseOFP(Val(body.raw_text)) IN
            IF Len(MissingFields(parsed)) > 0
            THEN Respond(r, Some(parsed), body.pf_mode,
                         [NoResponse EXCEPT !.status = 422, !.error = "ParserMissingFields",
                                            !.missing = MissingFields(parsed)])
            ELSE IF CoordsMissing(parsed)
            THEN Respond(r, Some(parsed), body.pf_mode,
                         [NoResponse EXCEPT !.status = 422, !.error = "MissingAirportCoords",
                                            !.missing_airports = MissingAirports(parsed)])
            ELSE LET c == createPendingFlight(parsed, body.pf_mode) IN
                 IF c.kind = "throw"
                 THEN Respond(r, Some(parsed), body.pf_mode,
                              [NoResponse EXCEPT !.status = 500, !.error = c.error])
                 ELSE req' = [req EXCEPT ![r] =
                                 [ConnIdle EXCEPT !.pc = "awaitFetch", !.parsed = Some(parsed),
                                                  !.pfMode = body.pf_mode, !.sent = c.sent,
                                                  !.values = c.values]]
    /\ UNCHANGED <<AIRPORTS, nf, nl, ld, ck, cp, tk>>

\* How the external call settles when the service answers with an OK status.
SubmissionOk == "OK"

\* A non-OK status is taken for a success: line 793 left out.
AfterFetchUnchecked(conn, outcome) ==
    IF outcome \in {SubmissionOk, "MyFlightbook HTTP 500"}
    THEN [NoResponse EXCEPT !.status = 200, !.ok = TRUE,
                            !.pf_mode = IF conn.pfMode = Some("PM") THEN "PM" ELSE "PF",
                            !.computed = conn.values]
    ELSE [NoResponse EXCEPT !.status = 500, !.error = outcome]

\* The handler resumed after the external call settled: the success response
\* of lines 843-850 when the service answered OK, otherwise the throw of line
\* 793 or the rejection of the await, answered by the catch of lines 851-853.
AfterFetch(conn, outcome) ==
    IF outcome = SubmissionOk
    THEN [NoResponse EXCEPT !.status = 200, !.ok = TRUE,
                            !.pf_mode = IF conn.pfMode = Some("PM") THEN "PM" ELSE "PF",
                            !.computed = conn.values]
    ELSE [NoResponse EXCEPT !.status = 500, !.error = outcome]

\* The external service answers OK: lines 792-804 and 843-850.
FetchOk(r) ==
    /\ req[r].pc = "awaitFetch"
    /\ req' = [req EXCEPT ![r].pc = "responded",
                          ![r].outcome = Some(SubmissionOk),
                          ![r].resp = AfterFetch(req[r], SubmissionOk)]
    /\ UNCHANGED <<AIRPORTS, nf, nl, ld, ck, cp, tk>>

\* The external service answers with a non-OK status (line 793 throws) or the
\* call fails (fetch rejects): the catch of lines 851-853 answers 500.
FetchFail(r, error) ==
    /\ req[r].pc = "awaitFetch"
    /\ req' = [req EXCEPT ![r].pc = "responded",
                          ![r].outcome = Some(error),
                          ![r].resp = AfterFetch(req[r], error)]
    /\ UNCHANGED <<AIRPORTS, nf, nl, ld, ck, cp, tk>>

\* The response has been delivered; the slot serves the next request.
Close(r) ==
    /\ req[r].pc = "responded"
    /\ req' = [req EXCEPT ![r] = ConnIdle]
    /\ UNCHANGED <<AIRPORTS, nf, nl, ld, ck, cp, tk>>

FetchErrors == {"MyFlightbook HTTP 500", "fetch failed"}

Conns == 1 .. NReq

InitIngest ==
    /\ AIRPORTS = AirportTable
    /\ req = [r \in Conns |-> ConnIdle]
    /\ nf = <<>>
    /\ nl = <<>>
    /\ ld = <<>>
    /\ ck = ClockIdle
    /\ cp = <<>>
    /\ tk = <<>>

PfModes == {None, Some("PF"), Some("PM")}

\* Request bodies of the single-connection specification.
IngestTexts ==
    [date : DateTokens, orig : CodeTokens, dest : CodeTokens, tail : TailTokens,
     block : BlockTokens, out : {None, Some(2350), Some(0), Some(2530)},
     in : {None, Some(10), Some(0)}, off : OffTokens, on : {None, Some(5)}]

IngestBodies ==
    [raw_text : {None} \cup {Some(t) : t \in IngestTexts}, pf_mode : PfModes]

\* A request with any body of IngestBodies arrives on an idle connection.
IngestAny(r) ==
    /\ req[r].pc = "idle"
    /\ \E body \in IngestBodies : Ingest(r, body)

\* One connection, every body of IngestBodies.
Next ==
    \/ IngestAny(1)
    \/ FetchOk(1)
    \/ \E e \in FetchErrors : FetchFail(1, e)
    \/ Close(1)

Spec == InitIngest /\ [][Next]_vars

\* The same system with the scheduling the handler relies on: the external
\* call settles (the service answers, or the call fails), and the event loop
\* then resumes the awaiting handler (lines 783-793, 841).
SpecLive ==
    /\ InitIngest
    /\ [][Next]_vars
    /\ WF_vars(FetchOk(1) \/ \E e \in FetchErrors : FetchFail(1, e))

\* The same handler on NReq connections served concurrently: a request is
\* taken up while others await the external service.
BaseText ==
    [date |-> Some([dd |-> 1, mon |-> "JAN", yy |-> 24]), orig |-> Some("SEGS"),
     dest |-> Some("SEQM"), tail |-> Some("C-ABCD"),
     block |-> Some([whole |-> 1, frac |-> Some(5)]),
     out |-> Some(2350), in |-> Some(10), off |-> None, on |-> None]

ConcTexts ==
    {BaseText,
     [BaseText EXCEPT !.orig = Some("SEQM"), !.dest = Some("SEGS")],
     [BaseText EXCEPT !.block = None],
     [BaseText EXCEPT !.dest = Some("ZZZZ")]}

ConcBodies == [raw_text : {Some(t) : t \in ConcTexts}, pf_mode : {Some("PF"), Some("PM")}]

IngestConc(r) ==
    /\ req[r].pc = "idle"
    /\ \E body \in ConcBodies : Ingest(r, body)

NextConc ==
    \E r \in Conns :
        \/ IngestConc(r)
        \/ FetchOk(r)
        \/ \E e \in FetchErrors : FetchFail(r, e)
        \/ Close(r)

SpecConc == InitIngest /\ [][NextConc]_vars

----------------------------------------------------------------------------
(* Properties of the ingest pipeline *)

\* The required fields of a flight fact that are absent (null), by name.
AbsentFields(parsed) ==
    {n \in {"date", "tail", "route", "block", "orig", "dest", "OUT", "IN"} :
        \/ n = "date" /\ parsed.isoDate = None
        \/ n = "tail" /\ parsed.tail = None
        \/ n = "route" /\ parsed.route = None
        \/ n = "block" /\ parsed.block = None
        \/ n = "orig" /\ parsed.orig = None
        \/ n = "dest" /\ parsed.dest = None
        \/ n = "OUT" /\ parsed.times.out = None
        \/ n = "IN" /\ parsed.times.in = None}

Range(seq) == {seq[k] : k \in DOMAIN seq}

\* The codes among origin and destination that the table has no entry for.
UnknownAirports(parsed) ==
    {c \in {Val(parsed.orig), Val(parsed.dest)} : c \notin DOMAIN AIRPORTS}

\* C1: a submission to the external logbook service is issued only for a
\* flight fact that has date, tail number, route and block time, and (via
\* /ingest) origin, destination, OUT, IN and both airports' coordinates.
C1_SubmitOnlyValidated ==
    \A r \in Conns :
        /\ req[r].pc = "awaitFetch" => req[r].sent # None
        /\ req[r].sent # None =>
               /\ req[r].parsed # None
               /\ AbsentFields(Val(req[r].parsed)) = {}
               /\ UnknownAirports(Val(req[r].parsed)) = {}

C1_Witness ==
    /\ req[1].pc = "awaitFetch"
    /\ req[1].sent # None
    /\ Val(req[1].parsed).times.out = Some([hh |-> 0, mm |-> 0])

\* C2: the validation failure of /ingest lists exactly the absent required
\* fields (every absent one, none that is present), and validation fails
\* exactly when that list is not empty.
C2_MissingListExact ==
    \A r \in Conns :
        req[r].pc = "responded" /\ req[r].parsed # None =>
            /\ req[r].resp.error = "ParserMissingFields" <=>
                   AbsentFields(Val(req[r].parsed)) # {}
            /\ req[r].resp.error = "ParserMissingFields" =>
                   Range(req[r].resp.missing) = AbsentFields(Val(req[r].parsed))

\* A text without a BLOCK token fails with exactly "block" in the list.
C2_Witness ==
    /\ req[1].pc = "responded"
    /\ req[1].resp.error = "ParserMissingFields"
    /\ req[1].resp.missing = <<"block">>
    /\ Val(req[1].parsed).block = None

\* C3: a block time extracted as the number 0 is never reported as a missing
\* block, a clock time 0000 is never reported as a missing OUT or IN, and only
\* fields whose pattern did not match are reported missing.
C3_ZeroIsNotMissing ==
    \A r \in Conns :
        req[r].parsed # None =>
            LET p      == Val(req[r].parsed)
                listed == Range(req[r].resp.missing)
            IN  /\ p.block = Some(0) => "block" \notin listed
                /\ p.times.out = Some([hh |-> 0, mm |-> 0]) => "OUT" \notin listed
                /\ p.times.in = Some([hh |-> 0, mm |-> 0]) => "IN" \notin listed
                /\ listed \subseteq AbsentFields(p)

\* OUT 0000 and IN 0000 pass the validation.
C3_Witness ==
    /\ req[1].pc = "awaitFetch"
    /\ Val(req[1].parsed).times.out = Some([hh |-> 0, mm |-> 0])
    /\ Val(req[1].parsed).times.in = Some([hh |-> 0, mm |-> 0])
    /\ req[1].resp.missing = <<>>

\* C4: with all required fields present and an origin or destination that has
\* no entry in the coordinate table, /ingest fails with the coordinate-lookup
\* error naming exactly the codes lacking an entry, and nothing is derived or
\* submitted.
C4_CoordinateLookupError ==
    \A r \in Conns :
        /\ req[r].pc # "idle"
        /\ req[r].parsed # None
        /\ AbsentFields(Val(req[r].parsed)) = {}
        /\ UnknownAirports(Val(req[r].parsed)) # {}
        => /\ req[r].resp.error = "MissingAirportCoords"
           /\ Range(req[r].resp.missing_airports) = UnknownAirports(Val(req[r].parsed))
           /\ req[r].sent = None
           /\ req[r].values = None

\* Both codes lack an entry and both are named.
C4_Witness ==
    /\ req[1].pc = "responded"
    /\ req[1].resp.error = "MissingAirportCoords"
    /\ req[1].resp.missing_airports = <<"ZZZZ", "ZZZZ">>
    /\ req[1].sent = None

StructuredResponse(c) ==
    /\ c.resp.status \in {200, 400, 422, 500}
    /\ c.resp.ok <=> c.resp.status = 200
    /\ c.resp.ok <=> (c.outcome = Some(SubmissionOk) /\ c.sent # None)
    /\ ~c.resp.ok => c.resp.error # ""
    /\ c.parsed = None => (c.resp.status = 400 /\ c.resp.error = "Missing raw_text")
    /\ (c.parsed # None /\ Len(MissingFields(Val(c.parsed))) > 0)
           => (c.resp.status = 422 /\ c.resp.error = "ParserMissingFields")
    /\ (c.parsed # None /\ Len(MissingFields(Val(c.parsed))) = 0
           /\ CoordsMissing(Val(c.parsed)))
           => (c.resp.status = 422 /\ c.resp.error = "MissingAirportCoords")
    /\ (c.outcome # None /\ c.outcome # Some(SubmissionOk))
           => (c.resp.status = 500 /\ c.resp.error = Val(c.outcome))

C11_ResponseIsStructured ==
    \A r \in Conns :
        /\ req[r].pc # "responded" => req[r].resp = NoResponse
        /\ req[r].pc = "responded" => StructuredResponse(req[r])

\* A response once sent is not replaced: the connection keeps it until it is
\* closed.
C11_AnsweredOnce ==
    \A r \in Conns :
        req[r].pc = "responded" =>
            \/ req'[r] = req[r]
            \/ req'[r] = ConnIdle

AtAirport(p, c) == p.lat = c.lat /\ p.lonNum = c.lon * p.den

\* C12: for a positive block duration D (D <= 1440) the loop takes exactly D
\* samples at offsets 0, 1, ..., D-1 in order; sample i is taken at OUT + i
\* minutes and at fraction i/(D-1) (0 when D = 1), so the first sample is at
\* the origin at the OUT instant, the last (D > 1) at the destination at
\* OUT + D - 1 minutes, and every fraction lies in [0, 1].
C12_SamplingLoop ==
    (nl.totalMin # None /\ Val(nl.totalMin) > 0) =>
        LET D == Val(nl.totalMin) IN
        /\ D <= MinutesPerDay
        /\ nl.i \in 0 .. D
        /\ nl.pc = "returned" => nl.i = D
        /\ nl.i = 0 => nl.last = None
        /\ nl.i > 0 =>
              /\ nl.last # None
              /\ LET s == Val(nl.last) IN
                 /\ s.i = nl.i - 1
                 /\ s.ti = Some(Val(nl.tOut) + s.i)
                 /\ s.f.den > 0
                 /\ 0 <= s.f.num /\ s.f.num <= s.f.den
                 /\ IF D = 1 THEN s.f.num = 0 ELSE s.f.num * (D - 1) = s.i * s.f.den
                 /\ s.i = 0 => (s.ti = nl.tOut /\ AtAirport(s.p, Val(nl.a)))
                 /\ (D > 1 /\ s.i = D - 1) => AtAirport(s.p, Val(nl.b))

\* A 20-minute block from SEGS to SEQM has been sampled to its end.
C12_Witness ==
    /\ nl.pc = "returned"
    /\ nl.totalMin = Some(20)
    /\ nl.i = 20
    /\ nl.a # nl.b
    /\ nl.last # None
    /\ Val(nl.last).i = 19

\* ---------------------------------------------------------------------------
\* The non-positive block duration
\* ---------------------------------------------------------------------------

\* The duration is not a positive number.
NotPositive(d) == ~(d # None /\ Val(d) > 0)

\* C13: with all required inputs present, a block duration that is not
\* positive (OUT and IN clock times equal) makes the night computation return
\* 0, not null, with the reason "Non-positive block minutes" and without
\* taking a sample; in every other case with all inputs present the reason
\* is "ok".
C13_NonPositiveDuration ==
    (nl.pc = "returned" /\ SevenInputsPresent(nf.parsed)) =>
        LET d == NightTotalMin(nf.parsed)
            r == Val(nl.result)
        IN  /\ NotPositive(d) <=> nf.parsed.times.out = nf.parsed.times.in
            /\ NotPositive(d) =>
                  /\ r.nightHours = Some(0)
                  /\ r.reason = <<"Non-positive block minutes">>
                  /\ nl.i = 0
                  /\ nl.last = None
            /\ ~NotPositive(d) =>
                  /\ r.nightHours # None
                  /\ r.reason = <<"ok">>

\* OUT 2530 and IN 2530 with every input present: no sample is taken and the
\* reason is "ok".
C13_Witness ==
    /\ nl.pc = "returned"
    /\ SevenInputsPresent(nf.parsed)
    /\ nf.parsed.isoDate = Some(RefDate)
    /\ nf.parsed.times.out = Some([hh |-> 25, mm |-> 30])
    /\ nf.parsed.times.in = Some([hh |-> 25, mm |-> 30])
    /\ nl.i = 0
    /\ Val(nl.result).nightHours = Some(0)
    /\ Val(nl.result).reason = <<"ok">>

\* ---------------------------------------------------------------------------
\* createPendingFlight called on a fact directly
\* ---------------------------------------------------------------------------

\* The deriver is applied to the fact up to its await: it throws (lines
\* 695-698) or holds the derived values (lines 700-727).  Called this way the
\* fact has not passed the checks of the /ingest handler.
Derive(pfMode) ==
    /\ cp = None
    /\ cp' = Some(createPendingFlight(nf.parsed, pfMode))
    /\ UNCHANGED <<AIRPORTS, req, nf, nl, ld, ck, tk>>

NextDerive == \E pfMode \in PfModes : Derive(pfMode)

SpecDerive == InitNight /\ [][NextDerive]_vars

\* The classification computeLandingDayNight gives the fact at the threshold
\* the deriver uses: <<TRUE>> night, <<FALSE>> day, <<>> null.
Classification == computeLandingDayNight(nf.parsed, CivilTwilight).isNightLanding

\* C14: the full-stop counts are (day 1, night 0) when the landing is
\* classified day, (day 0, night 1) when night and (0, 0) when the
\* classification is null; so their sum is at most the landing count, which
\* is 1, and they are never both 1.
C14_FullStopCounts ==
    (cp # None /\ Val(cp).kind = "fetch") =>
        LET v == Val(Val(cp).values) IN
        /\ Classification = Some(FALSE) => (v.fullStopDay = 1 /\ v.fullStopNight = 0)
        /\ Classification = Some(TRUE) => (v.fullStopDay = 0 /\ v.fullStopNight = 1)
        /\ Classification = None => (v.fullStopDay = 0 /\ v.fullStopNight = 0)
        /\ v.landings = 1
        /\ v.fullStopDay + v.fullStopNight <= v.landings
        /\ ~(v.fullStopDay = 1 /\ v.fullStopNight = 1)
        /\ Val(cp).sent # None
        /\ Val(Val(cp).sent).FullStopLandings = v.fullStopDay
        /\ Val(Val(cp).sent).FullStopNightLandings = v.fullStopNight

\* The destination has no coordinates: the classification is null and both
\* counts are 0.
C14_Witness ==
    /\ cp # None
    /\ Val(cp).kind = "fetch"
    /\ nf.parsed.dest = Some("ZZZZ")
    /\ Classification = None
    /\ Val(Val(cp).values).fullStopDay = 0
    /\ Val(Val(cp).values).fullStopNight = 0

\* ---------------------------------------------------------------------------
\* The range of the extracted clock times
\* ---------------------------------------------------------------------------

\* The clock time, when the extractor yielded one, is a time of day.
ClockInRange(c) == c = None \/ (Val(c).hh \in 0 .. 23 /\ Val(c).mm \in 0 .. 59)

\* C15: every clock time the extractor yields for OUT, OFF, ON or IN has its
\* hour in 0..23 and its minute in 0..59, so the OUT, IN and landing instants
\* built from the date and these clock times are valid instants and the
\* block duration computed from them is a number in 0..1439.
C15_ClockTimesInRange ==
    LET p == nf.parsed IN
    /\ ClockInRange(p.times.out) /\ ClockInRange(p.times.off)
    /\ ClockInRange(p.times.on) /\ ClockInRange(p.times.in)
    /\ (nl.pc # "entry" /\ SevenInputsPresent(p)) =>
          /\ makeUtcDate(p.isoDate, Val(p.times.out)) # None
          /\ makeUtcDate(p.isoDate, Val(p.times.in)) # None
          /\ NightTotalMin(p) # None
          /\ Val(NightTotalMin(p)) \in 0 .. MinutesPerDay - 1
    /\ (ld # None /\ Val(ld).reason = <<"ok">>) => Val(ld).tLand # None

\* OUT 2530 was extracted, and the night computation ran to its end on an
\* invalid OUT instant and a duration that is not a number.
C15_Witness ==
    /\ nl.pc = "returned"
    /\ SevenInputsPresent(nf.parsed)
    /\ nf.parsed.isoDate = Some(RefDate)
    /\ nf.parsed.times.out = Some([hh |-> 25, mm |-> 30])
    /\ nf.parsed.times.in = Some([hh |-> 0, mm |-> 10])
    /\ makeUtcDate(nf.parsed.isoDate, Val(nf.parsed.times.out)) = None
    /\ NightTotalMin(nf.parsed) = None
    /\ Val(nl.result).reason = <<"ok">>

\* ---------------------------------------------------------------------------
\* getAccessToken and the module-level token cache
\* ---------------------------------------------------------------------------
\* Times are milliseconds since start-up.  A number that may be NaN is <<>>
\* or <<n>>.  Between two awaits a call runs without interruption, so the
\* steps of a call are: entry to the first await (or to the return of line
\* 35), and the settling of the refresh request to the return or the throw.

NCall == 2
MaxTicks == 5
Margin == 60000
DefaultExpiresIn == 3600
MsPerSecond == 1000

Callers == 1 .. NCall

\* Date.now() advances in steps of half a minute or a minute.
ClockSteps == {30000, 60000}
Horizon == MaxTicks * 30000

Tokens == {"t1", "t2"}

\* The expires_in member of a refresh response: absent, a number of seconds,
\* or text that is not a number.
ExpiresInFields ==
    {[kind |-> "absent", n |-> 0], [kind |-> "num", n |-> 0], [kind |-> "num", n |-> 90],
     [kind |-> "num", n |-> 120], [kind |-> "text", n |-> 0]}

\* Why a refresh fails: a non-OK status (line 54), a body that is not JSON
\* (line 56), no token in the body (line 60), or the request itself fails.
RefreshErrors ==
    {"Token refresh failed", "Unexpected token in JSON", "No access_token in response",
     "fetch failed"}

\* let cached = { token: null, expMs: 0 }
CacheEmpty == [token |-> None, expMs |-> Some(0)]

CallIdle == [pc |-> "idle", path |-> "", result |-> None, error |-> ""]

\* A plausible slip: the margin of a minute is left out of the comparison.
CacheFreshNoMargin(cached, now) ==
    /\ cached.token # None
    /\ cached.expMs # None
    /\ now <= Val(cached.expMs)

\* cached.token && now < cached.expMs - 60_000 (false when expMs is NaN)
CacheFresh(cached, now) ==
    /\ cached.token # None
    /\ cached.expMs # None
    /\ now < Val(cached.expMs) - Margin

\* Number(data.expires_in || 3600)
ExpiresIn(field) ==
    IF field.kind = "absent" \/ (field.kind = "num" /\ field.n = 0)
    THEN Some(DefaultExpiresIn)
    ELSE IF field.kind = "num" THEN Some(field.n) ELSE None

\* Lines 62-63: both members are assigned, with no await between them.
StoreToken(access, field, now) ==
    [token |-> Some(access),
     expMs |-> IF ExpiresIn(field) = None THEN None
               ELSE Some(now + Val(ExpiresIn(field)) * MsPerSecond)]

InitToken ==
    /\ AIRPORTS = <<>>
    /\ req = <<>>
    /\ nf = <<>>
    /\ nl = <<>>
    /\ ld = <<>>
    /\ ck = ClockIdle
    /\ cp = <<>>
    /\ tk = [cached |-> CacheEmpty, now |-> 0, calls |-> [c \in Callers |-> CallIdle]]

\* Lines 29-44: the call returns the cached token, or issues the refresh
\* request and awaits it.
Call(c) ==
    /\ tk.calls[c].pc = "idle"
    /\ IF CacheFresh(tk.cached, tk.now)
       THEN tk' = [tk EXCEPT !.calls[c] =
                      [CallIdle EXCEPT !.pc = "returned", !.path = "cache",
                                       !.result = tk.cached.token]]
       ELSE tk' = [tk EXCEPT !.calls[c] = [CallIdle EXCEPT !.pc = "awaitFetch"]]
    /\ UNCHANGED <<AIRPORTS, req, nf, nl, ld, ck, cp>>

\* The refresh request is answered OK with a token: lines 53-64.
RefreshOk(c, access, field) ==
    /\ tk.calls[c].pc = "awaitFetch"
    /\ tk' = [tk EXCEPT !.cached = StoreToken(access, field, tk.now),
                        !.calls[c].pc = "returned",
                        !.calls[c].path = "refresh",
                        !.calls[c].result = Some(access)]
    /\ UNCHANGED <<AIRPORTS, req, nf, nl, ld, ck, cp>>

\* The refresh fails: the call throws at line 54, 56 or 60, or the await of
\* line 44 rejects.
RefreshFail(c, error) ==
    /\ tk.calls[c].pc = "awaitFetch"
    /\ tk' = [tk EXCEPT !.calls[c].pc = "thrown", !.calls[c].error = error]
    /\ UNCHANGED <<AIRPORTS, req, nf, nl, ld, ck, cp>>

\* The caller has taken the result; it may call again.
Done(c) ==
    /\ tk.calls[c].pc \in {"returned", "thrown"}
    /\ tk' = [tk EXCEPT !.calls[c] = CallIdle]
    /\ UNCHANGED <<AIRPORTS, req, nf, nl, ld, ck, cp>>

\* Time passes.
Tick(d) ==
    /\ tk.now + d <= Horizon
    /\ tk' = [tk EXCEPT !.now = tk.now + d]
    /\ UNCHANGED <<AIRPORTS, req, nf, nl, ld, ck, cp>>

NextToken ==
    \/ \E c \in Callers : Call(c)
    \/ \E c \in Callers, access \in Tokens, field \in ExpiresInFields :
          RefreshOk(c, access, field)
    \/ \E c \in Callers, error \in RefreshErrors : RefreshFail(c, error)
    \/ \E c \in Callers : Done(c)
    \/ \E d \in ClockSteps : Tick(d)

SpecToken == InitToken /\ [][NextToken]_vars

\* The cache holds the initial pair or a token, and a call that returned holds
\* a token.
C16_CacheState ==
    /\ tk.cached.token = None => tk.cached = CacheEmpty
    /\ \A c \in Callers :
          tk.calls[c].pc = "returned" =>
              /\ tk.calls[c].result # None
              /\ tk.calls[c].path \in {"cache", "refresh"}
              /\ tk.calls[c].path = "cache" =>
                    tk.calls[c].result \in {Some(t) : t \in Tokens}

\* One step of the calls: a return without a refresh request reads a token
\* the cache holds, more than a minute before the expiry stored with it; a
\* failed refresh leaves the cache as it was; the cache changes only when a
\* refresh succeeds, and then to the token that refresh returns.
C16_CacheStep ==
    /\ \A c \in Callers :
          (tk.calls[c].pc = "idle" /\ tk'.calls[c].pc = "returned") =>
              /\ tk.cached.token # None
              /\ tk.cached.expMs # None
              /\ tk.now < Val(tk.cached.expMs) - 60000
              /\ tk'.calls[c].result = tk.cached.token
              /\ tk'.cached = tk.cached
    /\ \A c \in Callers :
          (tk.calls[c].pc = "awaitFetch" /\ tk'.calls[c].pc = "thrown") =>
              tk'.cached = tk.cached
    /\ tk'.cached # tk.cached =>
          \E c \in Callers :
              /\ tk.calls[c].pc = "awaitFetch"
              /\ tk'.calls[c].pc = "returned"
              /\ tk'.calls[c].path = "refresh"
              /\ tk'.cached.token # None
              /\ tk'.cached.token = tk'.calls[c].result
              /\ tk'.cached.expMs # None => Val(tk'.cached.expMs) > tk.now

\* C16: under any interleaving of getAccessToken calls and refresh responses,
\* a call returns the cached token without a refresh request only if a
\* successful refresh stored it and now < expMs - 60000; token and expiry are
\* only written together, by a successful refresh, and a failed refresh
\* leaves the cache unchanged.
C16_TokenCache == []C16_CacheState /\ [][C16_CacheStep]_vars

\* While one call awaits its refresh, another has returned the token t1 from
\* the cache.
C16_Witness ==
    /\ tk.calls[1].pc = "awaitFetch"
    /\ tk.calls[2].pc = "returned"
    /\ tk.calls[2].path = "cache"
    /\ tk.calls[2].result = Some("t1")
    /\ tk.cached.token = Some("t1")

====
